---- MODULE Spec2Model ----
(***************************************************************************)
(* Model of native-app-publish-ready/scripts/check_project.py: the project *)
(* scanner that classifies a mobile project tree, locates its platform     *)
(* artifacts, runs the rule sets and prints a report.                      *)
(*                                                                         *)
(* Paths.  A path is a sequence of segments and a segment is a sequence of *)
(* tokens whose concatenation is the segment's name: <<"re","build">> is   *)
(* the directory "rebuild", <<"build">> the directory "build".  The tokens *)
(* are chosen so that a denylisted word occurs in the text of a path       *)
(* exactly when one of the path's tokens is that word, which is what the   *)
(* Python test  "build" in str(p)  computes.                               *)
(***************************************************************************)
EXTENDS Integers, Sequences, FiniteSets, TLC

VARIABLES
    argv,         \* the command line: "missing", "notdir" or "dir"
    root,         \* Path(sys.argv[1]).resolve(): the absolute path of the root
    tree,         \* the files under the root read so far: relative paths in
                  \* discovery order, first the root entries the classifier
                  \* tests, then what each platform rule set finds below them
    doc,          \* the content of package.json, read by the classifier and
                  \* again by check_react_native
    pc,           \* position in main()
    project,      \* detect_project_type's result dict
    all_issues,   \* main's all_issues list
    raised,       \* the function in which an exception escaped, or "none"
    stdout,       \* the reports printed to standard output
    exit_status,  \* the process exit status, -1 while running
    lpc,          \* position in the locator and rule-set harnesses
    located,      \* the results of the three locators
    given         \* the file contents a rule-set harness hands the rule set

vars == <<argv, root, tree, doc, pc, project, all_issues, raised, stdout,
          exit_status, lpc, located, given>>

mainVars == <<argv, doc, pc, project, all_issues, raised, stdout, exit_status>>

-----------------------------------------------------------------------------
(* Paths *)

S(name) == <<name>>

NoPath == <<>>

\* substring test on str(p): the word occurs in the text of the path
InStr(word, p) == \E i \in 1..Len(p) : \E j \in 1..Len(p[i]) : p[i][j] = word

\* root / rel
Join(r, rel) == r \o rel

Last(p) == p[Len(p)]

ToSet(s) == {s[i] : i \in 1..Len(s)}

\* (root / rel).exists()
Exists(files, rel) == rel \in ToSet(files)

\* a directory exists when it is listed or when something lies below it
IsPrefix(d, p) == Len(d) <= Len(p) /\ SubSeq(p, 1, Len(d)) = d

DirExists(files, d) == \E i \in 1..Len(files) : IsPrefix(d, files[i])

\* root.glob("**/<name>"): the files of that name, in discovery order
GlobName(files, name) == SelectSeq(files, LAMBDA p : Last(p) = name)

\* root.glob("**/a/b/<name>"): the files whose path ends with the given suffix
EndsWith(p, suffix) ==
    /\ Len(p) >= Len(suffix)
    /\ SubSeq(p, Len(p) - Len(suffix) + 1, Len(p)) = suffix

GlobSuffix(files, suffix) == SelectSeq(files, LAMBDA p : EndsWith(p, suffix))

FirstOr(s, dflt) == IF Len(s) > 0 THEN s[1] ELSE dflt

-----------------------------------------------------------------------------
(* Artifact locators *)

InfoPlistName == S("Info.plist")
ManifestName == S("AndroidManifest.xml")
GradleName == <<"build", ".gradle">>
GradleKtsName == <<"build", ".gradle", ".kts">>

InfoPlistCandidates ==
    << <<S("ios"), S("Runner"), InfoPlistName>>,
       <<InfoPlistName>> >>

\* the filter of find_info_plist, on the text of the absolute path
PlistPreferred(r, p) ==
    LET parts == Join(r, p)
    IN  ~InStr("Pods", parts) /\ ~InStr("build", parts) /\ ~InStr("DerivedData", parts)

FirstExisting(files, candidates) ==
    LET hits == SelectSeq(candidates, LAMBDA c : Exists(files, c))
    IN  FirstOr(hits, NoPath)

\* a locator that gives up when the filter leaves nothing
find_info_plist_NoFallback(r, files) ==
    LET conv == FirstExisting(files, InfoPlistCandidates)
        kept == SelectSeq(GlobName(files, InfoPlistName), LAMBDA p : PlistPreferred(r, p))
    IN  IF conv # NoPath THEN conv ELSE FirstOr(kept, NoPath)

find_info_plist(r, files) ==
    LET conv == FirstExisting(files, InfoPlistCandidates)
        plists == GlobName(files, InfoPlistName)
        kept == SelectSeq(plists, LAMBDA p : PlistPreferred(r, p))
    IN  IF conv # NoPath THEN conv
        ELSE IF Len(kept) > 0 THEN kept[1]
        ELSE FirstOr(plists, NoPath)

ManifestSuffix == <<S("src"), S("main"), ManifestName>>

ManifestCandidates ==
    << <<S("android"), S("app")>> \o ManifestSuffix,
       <<S("app")>> \o ManifestSuffix >>

\* the filter of find_android_manifest, on the text of the absolute path
ManifestPreferred(r, m) == ~InStr("build", Join(r, m))

find_android_manifest(r, files) ==
    LET conv == FirstExisting(files, ManifestCandidates)
        manifests == GlobSuffix(files, ManifestSuffix)
        kept == SelectSeq(manifests, LAMBDA m : ManifestPreferred(r, m))
    IN  IF conv # NoPath THEN conv
        ELSE IF Len(kept) > 0 THEN kept[1]
        ELSE FirstOr(manifests, NoPath)

GradleCandidates ==
    << <<S("android"), S("app"), GradleName>>,
       <<S("android"), S("app"), GradleKtsName>>,
       <<S("app"), GradleName>>,
       <<S("app"), GradleKtsName>> >>

\* a locator that goes on to search the tree for the file name
find_build_gradle_Search(r, files) ==
    LET conv == FirstExisting(files, GradleCandidates)
    IN  IF conv # NoPath THEN conv
        ELSE FirstOr(GlobName(files, GradleName) \o GlobName(files, GradleKtsName), NoPath)

find_build_gradle(r, files) == FirstExisting(files, GradleCandidates)

-----------------------------------------------------------------------------
(* Findings *)

RECURSIVE Render(_)
\* str(p.relative_to(root)): the tokens of the path, "/" between segments
Render(p) ==
    IF Len(p) = 0 THEN <<>>
    ELSE IF Len(p) = 1 THEN p[1]
    ELSE p[1] \o <<"/">> \o Render(Tail(p))

\* one appended dict: the message is its text followed by what it interpolates
Finding(platform, category, text, args, severity) ==
    [platform |-> platform, category |-> category,
     message |-> <<text>> \o args, severity |-> severity]

\* what a rule set hands back: its issues list, or an exception that escaped
Returned(issues) == [issues |-> issues, raised |-> FALSE]

Raises == [issues |-> <<>>, raised |-> TRUE]

\* statement sequencing: the second block runs only if the first did not raise
Then(a, b) ==
    IF a.raised THEN Raises
    ELSE IF b.raised THEN Raises
    ELSE Returned(a.issues \o b.issues)

\* the members of a fixed catalog that occur in a set, in catalog order
Names(set, order) == SelectSeq(order, LAMBDA n : n \in set)

-----------------------------------------------------------------------------
(* Project classifier *)

Pubspec == <<S("pubspec.yaml")>>
LibDir == <<S("lib")>>
IosDir == <<S("ios")>>
AndroidDir == <<S("android")>>
PackageJson == <<S("package.json")>>
XcodeProj == <<<<"App", ".xcodeproj">>>>
XcWorkspace == <<<<"App", ".xcworkspace">>>>
PodfileLock == <<S("ios"), S("Podfile.lock")>>

\* pkg.get(key, {}) of a parsed package.json
DepNames(d) == IF d.shape = "object" THEN d.names ELSE {}

\* json.loads(pkg_json.read_text()) and the merge of the two dependency maps:
\* "caught" for OSError and JSONDecodeError, "raise" for what the except
\* clause does not name, else the merged key set
MergedDeps(pkg) ==
    CASE pkg.kind \in {"unreadable", "unparsable"} -> [outcome |-> "caught", names |-> {}]
      [] pkg.kind \in {"undecodable", "nonobject"} -> [outcome |-> "raise", names |-> {}]
      [] OTHER ->
            IF pkg.deps.shape = "nonobject" \/ pkg.devDeps.shape = "nonobject"
            THEN [outcome |-> "raise", names |-> {}]
            ELSE [outcome |-> "ok",
                  names |-> DepNames(pkg.deps) \cup DepNames(pkg.devDeps)]

\* the platforms list of a flutter or react-native project
DirPlatforms(files) ==
    (IF DirExists(files, IosDir) THEN <<"ios">> ELSE <<>>)
    \o (IF DirExists(files, AndroidDir) THEN <<"android">> ELSE <<>>)

FlutterMatches(files) == Exists(files, Pubspec) /\ DirExists(files, LibDir)

HasXcodeBundle(files) ==
    \E i \in 1..Len(files) :
        /\ Len(files[i]) >= 1
        /\ files[i][1][Len(files[i][1])] \in {".xcodeproj", ".xcworkspace"}

NativePlatforms(files) ==
    (IF HasXcodeBundle(files) \/ DirExists(files, IosDir) THEN <<"ios">> ELSE <<>>)
    \o (IF \/ Exists(files, <<S("app"), GradleName>>)
           \/ Exists(files, <<S("app"), GradleKtsName>>)
           \/ Exists(files, <<S("android"), S("app"), GradleName>>)
           \/ Exists(files, <<S("android"), S("app"), GradleKtsName>>)
        THEN <<"android">> ELSE <<>>)

Detected(fw, platforms) == [framework |-> fw, platforms |-> platforms, raised |-> FALSE]

DetectRaises == [framework |-> "None", platforms |-> <<>>, raised |-> TRUE]

detect_project_type(files, pkg) ==
    LET deps == MergedDeps(pkg)
    IN  IF FlutterMatches(files) THEN Detected("flutter", DirPlatforms(files))
        ELSE IF Exists(files, PackageJson) /\ deps.outcome = "raise" THEN DetectRaises
        ELSE IF /\ Exists(files, PackageJson)
                /\ deps.outcome = "ok"
                /\ ("react-native" \in deps.names \/ "expo" \in deps.names)
             THEN Detected("react-native", DirPlatforms(files))
        ELSE Detected("native", NativePlatforms(files))

-----------------------------------------------------------------------------
(* Rule sets: common, flutter, react-native *)

check_common(c) ==
    LET env == IF Len(c.env) > 0
               THEN <<Finding("common", "security", "Environment files found", c.env, "warning")>>
               ELSE <<>>
        gi == CASE c.gitignore = "absent" ->
                     Returned(<<Finding("common", "security", "No .gitignore found", <<>>, "warning")>>)
                [] c.gitignore = "lists_env" ->
                     Returned(<<Finding("common", "security", ".env is in .gitignore", <<>>, "pass")>>)
                [] c.gitignore = "lacks_env" ->
                     Returned(<<Finding("common", "security", ".env is NOT in .gitignore", <<>>, "warning")>>)
                [] OTHER -> Raises
        readme == CASE c.readme = "privacy" ->
                         Returned(<<Finding("common", "legal", "Privacy policy referenced in README", <<>>, "pass")>>)
                    [] c.readme \in {"absent", "plain"} -> Returned(<<>>)
                    [] OTHER -> Raises
    IN  Then(Returned(env), Then(gi, readme))

\* the Podfile.lock block shared by the two framework rule sets
PodfileCheck(platform, files) ==
    IF Exists(files, PodfileLock)
    THEN <<Finding(platform, "config", "ios/Podfile.lock committed", <<>>, "pass")>>
    ELSE IF DirExists(files, IosDir)
    THEN <<Finding(platform, "config", "ios/Podfile.lock not found", <<>>, "warning")>>
    ELSE <<>>

check_flutter(files, pub) ==
    LET manifest ==
            IF ~Exists(files, Pubspec) THEN Returned(<<>>)
            ELSE IF pub.state = "unreadable" THEN Raises
            ELSE Returned(
                <<IF pub.version
                  THEN Finding("flutter", "version", "Version in pubspec.yaml", <<>>, "pass")
                  ELSE Finding("flutter", "version", "No version found in pubspec.yaml", <<>>, "error"),
                  IF pub.sdk
                  THEN Finding("flutter", "config", "Dart SDK constraint defined", <<>>, "pass")
                  ELSE Finding("flutter", "config", "No Dart SDK constraint in pubspec.yaml", <<>>, "warning")>>)
    IN  Then(manifest, Returned(PodfileCheck("flutter", files)))

DebugPkgs == <<"react-native-debugger", "reactotron-react-native", "expo-dev-client">>

check_react_native(files, pkg, rn) ==
    LET deps == DepNames(pkg.deps)
        found_debug == Names(deps, DebugPkgs)
        body ==
            (IF "react-native" \in deps
             THEN <<Finding("react-native", "config", "React Native version", <<>>, "pass")>>
             ELSE <<>>)
            \o (IF "expo" \in deps
                THEN <<Finding("react-native", "config", "Expo SDK", <<>>, "pass"),
                       IF rn.app_config
                       THEN Finding("react-native", "config", "App config file found", <<>>, "pass")
                       ELSE Finding("react-native", "config",
                                    "No app.json or app.config.js found for Expo project", <<>>, "error")>>
                ELSE <<>>)
            \o (IF Len(found_debug) > 0
                THEN <<Finding("react-native", "build",
                               "Debug packages in production dependencies", found_debug, "warning")>>
                ELSE <<>>)
            \o (IF rn.version
                THEN <<Finding("react-native", "version", "Version in package.json", <<>>, "pass")>>
                ELSE <<>>)
        descriptor ==
            IF ~Exists(files, PackageJson) THEN Returned(<<>>)
            ELSE CASE pkg.kind \in {"unreadable", "unparsable"} ->
                        Returned(<<Finding("react-native", "config",
                                           "Could not parse package.json", <<>>, "warning")>>)
                   [] pkg.kind \in {"undecodable", "nonobject"} -> Raises
                   [] OTHER -> IF pkg.deps.shape = "nonobject" THEN Raises ELSE Returned(body)
    IN  Then(descriptor, Returned(PodfileCheck("react-native", files)))

-----------------------------------------------------------------------------
(* Rule sets: ios *)

\* one statement group of a try block: what it appended, and whether it raised
Step(issues) == [issues |-> issues, failed |-> FALSE]

Fails == [issues |-> <<>>, failed |-> TRUE]

RECURSIVE RunSteps(_)
\* the statements of a try block in order, up to the first that raises
RunSteps(steps) ==
    IF Len(steps) = 0 THEN Step(<<>>)
    ELSE IF steps[1].failed THEN [issues |-> steps[1].issues, failed |-> TRUE]
    ELSE LET rest == RunSteps(Tail(steps))
         IN  [issues |-> steps[1].issues \o rest.issues, failed |-> rest.failed]

\* permission_keys, in dict order
PermissionKeys ==
    << [key |-> "NSCameraUsageDescription", name |-> "Camera"],
       [key |-> "NSPhotoLibraryUsageDescription", name |-> "Photo Library"],
       [key |-> "NSLocationWhenInUseUsageDescription", name |-> "Location (When In Use)"],
       [key |-> "NSLocationAlwaysAndWhenInUseUsageDescription", name |-> "Location (Always)"],
       [key |-> "NSMicrophoneUsageDescription", name |-> "Microphone"],
       [key |-> "NSContactsUsageDescription", name |-> "Contacts"],
       [key |-> "NSCalendarsUsageDescription", name |-> "Calendars"],
       [key |-> "NSBluetoothAlwaysUsageDescription", name |-> "Bluetooth"],
       [key |-> "NSFaceIDUsageDescription", name |-> "Face ID"],
       [key |-> "NSMotionUsageDescription", name |-> "Motion"],
       [key |-> "NSLocalNetworkUsageDescription", name |-> "Local Network"],
       [key |-> "NSSpeechRecognitionUsageDescription", name |-> "Speech Recognition"],
       [key |-> "NSHealthShareUsageDescription", name |-> "Health (Read)"],
       [key |-> "NSHealthUpdateUsageDescription", name |-> "Health (Write)"],
       [key |-> "NSUserTrackingUsageDescription", name |-> "Tracking (ATT)"] >>

MinDescriptionLen == 10

RECURSIVE LStrip(_)
LStrip(s) == IF Len(s) > 0 /\ s[1] = " " THEN LStrip(Tail(s)) ELSE s

RECURSIVE RStrip(_)
RStrip(s) == IF Len(s) > 0 /\ s[Len(s)] = " " THEN RStrip(SubSeq(s, 1, Len(s) - 1)) ELSE s

\* str.strip(): the text without its leading and trailing whitespace
Strip(s) == RStrip(LStrip(s))

\* the values of a plist entry: a string, given as its characters, or a value
\* of another type (integer, boolean, array, dict), which has no strip()
Str(text) == [kind |-> "string", text |-> text, truthy |-> Len(text) > 0]

NonStr(truthy) == [kind |-> "nonstring", text |-> <<>>, truthy |-> truthy]

\* a string of n characters none of which is whitespace
Text(n) == [k \in 1..n |-> "x"]

\* plist.get(key): the value of the entry, None when the key is missing
PermValue(perms, key) ==
    IF key \in DOMAIN perms THEN perms[key]
    ELSE [kind |-> "absent", text |-> <<>>, truthy |-> FALSE]

\* found_permissions when the loop runs to its end: the permissions whose
\* description is long enough, in catalog order
FoundPermissions(perms) ==
    LET good == SelectSeq(PermissionKeys,
                          LAMBDA e : /\ PermValue(perms, e.key).truthy
                                     /\ PermValue(perms, e.key).kind = "string"
                                     /\ Len(Strip(PermValue(perms, e.key).text)) >= MinDescriptionLen)
    IN  [k \in 1..Len(good) |-> good[k].name]

\* one round of the loop: a falsy value is skipped, val.strip() raises on a
\* value that is not a string
PermStep(perms, e) ==
    LET val == PermValue(perms, e.key)
    IN  CASE ~val.truthy -> Step(<<>>)
          [] val.kind = "nonstring" -> Fails
          [] OTHER ->
                IF Len(Strip(val.text)) < MinDescriptionLen
                THEN Step(<<Finding("ios", "privacy", "permission description is very short",
                                    <<e.name>>, "warning")>>)
                ELSE Step(<<>>)

\* the body of the try block of the Info.plist check
PlistSteps(plist) ==
    IF plist.kind # "dict" THEN <<Fails>>
    ELSE
      << CASE plist.bundle = "absent" ->
                 Step(<<Finding("ios", "config", "CFBundleIdentifier missing from Info.plist", <<>>, "error")>>)
           [] plist.bundle = "variable" ->
                 Step(<<Finding("ios", "config", "Bundle identifier uses build variable", <<>>, "pass")>>)
           [] plist.bundle = "plain" ->
                 Step(<<Finding("ios", "config", "Bundle identifier", <<>>, "pass")>>)
           [] OTHER -> Fails,
         Step((IF plist.version
               THEN <<Finding("ios", "version", "Version", <<>>, "pass")>>
               ELSE <<Finding("ios", "version", "CFBundleShortVersionString missing", <<>>, "error")>>)
              \o (IF plist.build THEN <<>>
                  ELSE <<Finding("ios", "version", "CFBundleVersion (build number) missing", <<>>, "error")>>)) >>
      \o [k \in 1..Len(PermissionKeys) |-> PermStep(plist.perms, PermissionKeys[k])]
      \o << IF Len(FoundPermissions(plist.perms)) > 0
            THEN Step(<<Finding("ios", "privacy", "Permission descriptions found for",
                                FoundPermissions(plist.perms), "pass")>>)
            ELSE Step(<<>>),
            CASE plist.ats = "nonobject" -> Fails
              [] plist.ats = "on" ->
                    Step(<<Finding("ios", "security", "NSAllowsArbitraryLoads is enabled", <<>>, "warning")>>)
              [] OTHER -> Step(<<>>) >>

IosPlistCheck(r, files, plist) ==
    LET plist_path == find_info_plist(r, files)
        body == RunSteps(PlistSteps(plist))
    IN  IF plist_path = NoPath
        THEN <<Finding("ios", "config", "Info.plist not found", <<>>, "error")>>
        ELSE <<Finding("ios", "config", "Info.plist found at", Render(plist_path), "pass")>>
             \o body.issues
             \o (IF body.failed
                 THEN <<Finding("ios", "config", "Could not parse Info.plist", <<>>, "warning")>>
                 ELSE <<>>)

\* the list comprehension that drops what lies in Pods or build
NotVendored(r, p) == ~InStr("Pods", Join(r, p)) /\ ~InStr("build", Join(r, p))

IosPrivacyCheck(r, files) ==
    LET privacy_manifests ==
            SelectSeq(GlobName(files, S("PrivacyInfo.xcprivacy")), LAMBDA p : NotVendored(r, p))
    IN  IF Len(privacy_manifests) > 0
        THEN <<Finding("ios", "privacy", "Privacy manifest found", Render(privacy_manifests[1]), "pass")>>
        ELSE <<Finding("ios", "privacy", "PrivacyInfo.xcprivacy not found", <<>>, "error")>>

IosIconCheck(r, files, icon) ==
    LET icon_sets == SelectSeq(GlobName(files, S("AppIcon.appiconset")), LAMBDA p : NotVendored(r, p))
    IN  IF Len(icon_sets) = 0
        THEN Returned(<<Finding("ios", "assets", "AppIcon.appiconset not found", <<>>, "error")>>)
        ELSE IF ~Exists(files, icon_sets[1] \o <<S("Contents.json")>>)
        THEN Returned(<<Finding("ios", "assets", "AppIcon.appiconset found but no Contents.json", <<>>, "warning")>>)
        ELSE CASE icon.kind \in {"unreadable", "unparsable"} ->
                    Returned(<<Finding("ios", "assets",
                                       "Could not parse AppIcon.appiconset/Contents.json", <<>>, "warning")>>)
               [] icon.kind \in {"undecodable", "nonobject", "badimages"} -> Raises
               [] OTHER ->
                    IF icon.has_1024
                    THEN Returned(<<Finding("ios", "assets", "1024x1024 App Store icon found", <<>>, "pass")>>)
                    ELSE Returned(<<Finding("ios", "assets",
                                            "Missing 1024x1024 App Store icon in AppIcon.appiconset", <<>>, "error")>>)

\* root.glob("**/*<ext>"): the files whose name ends with the extension
GlobExt(files, ext) ==
    SelectSeq(files, LAMBDA p : Len(p) >= 1 /\ Last(p)[Len(Last(p))] = ext)

ScanLimit == 200

Head200(s) == SubSeq(s, 1, IF Len(s) < ScanLimit THEN Len(s) ELSE ScanLimit)

\* secret_patterns, by position: the description of each
SecretDescs ==
    <<"Possible hardcoded API key/secret", "Possible Stripe secret key", "Possible Google API key">>

\* what is known of a source file: whether read_text succeeds and which of the
\* three patterns re.search finds in it
SourceText(sources, p) ==
    IF p \in DOMAIN sources THEN sources[p] ELSE [readable |-> TRUE, matches |-> {}]

FirstMatch(matches) == CHOOSE k \in matches : \A m \in matches : k <= m

\* the inner loop without its break: one warning for every pattern that matches
SecretFindings_NoBreak(platform, sources, p) ==
    LET text == SourceText(sources, p)
        hits == SelectSeq(<<1, 2, 3>>, LAMBDA k : k \in text.matches)
    IN  IF ~text.readable THEN <<>>
        ELSE [k \in 1..Len(hits) |->
                Finding(platform, "security", SecretDescs[hits[k]],
                        <<"found in">> \o Render(p), "warning")]

\* the inner loop over secret_patterns, with its break
SecretFindings(platform, sources, p) ==
    LET text == SourceText(sources, p)
    IN  IF ~text.readable \/ text.matches = {} THEN <<>>
        ELSE <<Finding(platform, "security", SecretDescs[FirstMatch(text.matches)],
                       <<"found in">> \o Render(p), "warning")>>

RECURSIVE SecretScan(_, _, _)
\* the loop over the files: the findings of each file in turn (the list is
\* halved rather than peeled so that long lists stay within the stack)
SecretScan(platform, sources, scanned) ==
    IF Len(scanned) = 0 THEN <<>>
    ELSE IF Len(scanned) = 1 THEN SecretFindings(platform, sources, scanned[1])
    ELSE LET half == Len(scanned) \div 2
         IN  SecretScan(platform, sources, SubSeq(scanned, 1, half))
             \o SecretScan(platform, sources, SubSeq(scanned, half + 1, Len(scanned)))

IosSecretCheck(r, files, sources) ==
    LET swift_files == SelectSeq(GlobExt(files, ".swift"), LAMBDA f : NotVendored(r, f))
    IN  SecretScan("ios", sources, Head200(swift_files))

check_ios(r, files, i) ==
    Then(Returned(IosPlistCheck(r, files, i.plist) \o IosPrivacyCheck(r, files)),
         Then(IosIconCheck(r, files, i.icon),
              Returned(IosSecretCheck(r, files, i.sources))))

-----------------------------------------------------------------------------
(* Rule sets: android *)

DangerousPerms ==
    <<"ACCESS_FINE_LOCATION", "ACCESS_COARSE_LOCATION", "ACCESS_BACKGROUND_LOCATION",
      "CAMERA", "RECORD_AUDIO", "READ_CONTACTS", "WRITE_CONTACTS",
      "READ_CALENDAR", "WRITE_CALENDAR", "READ_PHONE_STATE",
      "CALL_PHONE", "READ_CALL_LOG", "WRITE_CALL_LOG",
      "BODY_SENSORS", "SEND_SMS", "READ_SMS",
      "READ_EXTERNAL_STORAGE", "WRITE_EXTERNAL_STORAGE",
      "QUERY_ALL_PACKAGES">>

AndroidManifestCheck(r, files, manifest) ==
    LET manifest_path == find_android_manifest(r, files)
        permissions == manifest.permissions
        used_dangerous == SelectSeq(permissions, LAMBDA q : q \in ToSet(DangerousPerms))
        parsed ==
            <<IF manifest.package
              THEN Finding("android", "config", "Package name", <<>>, "pass")
              ELSE Finding("android", "config", "Package name not in manifest", <<>>, "warning")>>
            \o (IF Len(permissions) > 0
                THEN <<Finding("android", "privacy", "Declared permissions", permissions, "pass")>>
                ELSE <<>>)
            \o (IF Len(used_dangerous) > 0
                THEN <<Finding("android", "privacy", "Dangerous permissions detected",
                               used_dangerous, "warning")>>
                ELSE <<>>)
            \o (IF "INTERNET" \in ToSet(permissions)
                THEN <<Finding("android", "config", "INTERNET permission declared", <<>>, "pass")>>
                ELSE <<>>)
    IN  IF manifest_path = NoPath
        THEN Returned(<<Finding("android", "config", "AndroidManifest.xml not found", <<>>, "error")>>)
        ELSE CASE manifest.kind = "unreadable" -> Raises
               [] manifest.kind = "unparsable" ->
                    Returned(<<Finding("android", "config", "AndroidManifest.xml found at",
                                       Render(manifest_path), "pass"),
                               Finding("android", "config", "Could not parse AndroidManifest.xml",
                                       <<>>, "warning")>>)
               [] OTHER ->
                    Returned(<<Finding("android", "config", "AndroidManifest.xml found at",
                                       Render(manifest_path), "pass")>> \o parsed)

MinTargetSdk == 34

NoTargetSdk == -1

\* the text of a build descriptor is a sequence of pieces: words, blanks,
\* single digits and other characters; pieces side by side are adjacent text
Digits == <<"0", "1", "2", "3", "4", "5", "6", "7", "8", "9">>

\* the characters \d and \s match
DigitChars == ToSet(Digits)

SpaceChars == {" ", "\n", "\t"}

RECURSIVE RunEnd(_, _, _)
\* where a greedy run of one character class that starts at k stops
RunEnd(text, k, class) ==
    IF k <= Len(text) /\ text[k] \in class THEN RunEnd(text, k + 1, class) ELSE k

RECURSIVE IntOf(_)
\* int(): the decimal value of a string of digits
IntOf(ds) ==
    IF Len(ds) = 0 THEN 0
    ELSE 10 * IntOf(SubSeq(ds, 1, Len(ds) - 1))
         + (CHOOSE v \in 0..9 : Digits[v + 1] = ds[Len(ds)])

\* targetSdk(?:Version)?\s+(\d+) tried at position k: group 1, or nothing
TargetSdkAt(text, k) ==
    IF text[k] # "targetSdk" THEN <<>>
    ELSE LET a == IF k + 1 <= Len(text) /\ text[k + 1] = "Version" THEN k + 2 ELSE k + 1
             b == RunEnd(text, a, SpaceChars)
             c == RunEnd(text, b, DigitChars)
         IN  IF b > a /\ c > b THEN SubSeq(text, b, c - 1) ELSE <<>>

\* re.search and int(target_sdk.group(1)): the leftmost match
TargetSdkSearch(text) ==
    LET hits == { k \in 1..Len(text) : TargetSdkAt(text, k) # <<>> }
    IN  IF hits = {} THEN NoTargetSdk
        ELSE IntOf(TargetSdkAt(text, CHOOSE k \in hits : \A j \in hits : k <= j))

\* a comparison that also warns about the required level itself
BelowTarget_Inclusive(sdk_val) == sdk_val <= MinTargetSdk

\* sdk_val < 34
BelowTarget(sdk_val) == sdk_val < MinTargetSdk

\* the findings of the try block once read_text has returned the text
GradleFindings(gradle) ==
    LET target_sdk == TargetSdkSearch(gradle.text)
    IN  (IF gradle.versionName
         THEN <<Finding("android", "version", "versionName", <<>>, "pass")>> ELSE <<>>)
        \o (IF gradle.versionCode
            THEN <<Finding("android", "version", "versionCode", <<>>, "pass")>> ELSE <<>>)
        \o (IF target_sdk = NoTargetSdk THEN <<>>
            ELSE IF BelowTarget(target_sdk)
            THEN <<Finding("android", "config", "targetSdkVersion is below the required",
                           <<ToString(target_sdk)>>, "warning")>>
            ELSE <<Finding("android", "config", "targetSdkVersion",
                           <<ToString(target_sdk)>>, "pass")>>)
        \o <<IF gradle.signing
             THEN Finding("android", "build", "Release signing config found", <<>>, "pass")
             ELSE Finding("android", "build", "No release signing config found in build.gradle", <<>>, "warning")>>
        \o <<IF gradle.minify
             THEN Finding("android", "build", "Code minification (R8/ProGuard) enabled", <<>>, "pass")
             ELSE Finding("android", "build", "minifyEnabled is not set to true for release", <<>>, "warning")>>

AndroidGradleCheck(r, files, gradle) ==
    LET gradle_path == find_build_gradle(r, files)
    IN  IF gradle_path = NoPath
        THEN Returned(<<Finding("android", "config", "App-level build.gradle not found", <<>>, "error")>>)
        ELSE CASE gradle.kind = "undecodable" -> Raises
               [] gradle.kind = "unreadable" ->
                    Returned(<<Finding("android", "config", "build.gradle found at",
                                       Render(gradle_path), "pass"),
                               Finding("android", "config", "Could not read build.gradle", <<>>, "warning")>>)
               [] OTHER ->
                    Returned(<<Finding("android", "config", "build.gradle found at",
                                       Render(gradle_path), "pass")>> \o GradleFindings(gradle))

\* res_dir.glob("mipmap-*"): the names directly under res that start so
MipmapDirs(files, res_dir) ==
    { p[Len(res_dir) + 1] : p \in { q \in ToSet(files) :
        /\ Len(q) > Len(res_dir)
        /\ IsPrefix(res_dir, q)
        /\ q[Len(res_dir) + 1][1] = "mipmap-" } }

\* res_dir.glob("mipmap-anydpi*/**/ic_launcher.xml")
AdaptiveIcons(files, res_dir) ==
    { q \in ToSet(files) :
        /\ Len(q) > Len(res_dir) + 1
        /\ IsPrefix(res_dir, q)
        /\ Len(q[Len(res_dir) + 1]) >= 2
        /\ q[Len(res_dir) + 1][1] = "mipmap-"
        /\ q[Len(res_dir) + 1][2] = "anydpi"
        /\ Last(q) = S("ic_launcher.xml") }

AndroidIconCheck(files) ==
    LET android_base == IF DirExists(files, AndroidDir) THEN AndroidDir ELSE <<>>
        res_dir == android_base \o <<S("app"), S("src"), S("main"), S("res")>>
    IN  IF ~DirExists(files, res_dir)
        THEN <<Finding("android", "assets", "Resource directory not found at expected path", <<>>, "warning")>>
        ELSE <<IF MipmapDirs(files, res_dir) # {}
               THEN Finding("android", "assets", "Mipmap directories found",
                            <<ToString(Cardinality(MipmapDirs(files, res_dir)))>>, "pass")
               ELSE Finding("android", "assets", "No mipmap directories found for app icons", <<>>, "warning"),
               IF AdaptiveIcons(files, res_dir) # {}
               THEN Finding("android", "assets", "Adaptive icon configured", <<>>, "pass")
               ELSE Finding("android", "assets", "No adaptive icon found", <<>>, "warning")>>

\* the list comprehension that drops what lies in build or .gradle
NotGenerated(r, f) == ~InStr("build", Join(r, f)) /\ ~InStr(".gradle", Join(r, f))

AndroidSecretCheck(r, files, sources) ==
    LET java_kotlin_files ==
            SelectSeq(GlobExt(files, ".kt") \o GlobExt(files, ".java"),
                      LAMBDA f : NotGenerated(r, f))
    IN  SecretScan("android", sources, Head200(java_kotlin_files))

check_android(r, files, a) ==
    Then(AndroidManifestCheck(r, files, a.manifest),
         Then(AndroidGradleCheck(r, files, a.gradle),
              Returned(AndroidIconCheck(files) \o AndroidSecretCheck(r, files, a.sources))))

-----------------------------------------------------------------------------
(* The project trees and file contents the scan is run on *)

\* the root-level entries the classifier looks at, in listing order
MarkerOrder ==
    << Pubspec, LibDir, IosDir, PodfileLock, AndroidDir, PackageJson, XcodeProj,
       <<S("app"), GradleName>>, <<S("android"), S("app"), GradleKtsName>> >>

\* a directory with a listed child is listed too
WellFormed(markers) ==
    /\ (PodfileLock \in markers => IosDir \in markers)
    /\ (<<S("android"), S("app"), GradleKtsName>> \in markers => AndroidDir \in markers)

MaxMarkers == 4

MainTrees ==
    { SelectSeq(MarkerOrder, LAMBDA m : m \in markers) :
        markers \in { ms \in SUBSET ToSet(MarkerOrder) :
                        WellFormed(ms) /\ Cardinality(ms) <= MaxMarkers } }

PlainRoot == <<S("home"), S("proj")>>

\* where the scanned project is stored: anywhere, or below a directory "build"
MainRoots == {PlainRoot, <<S("home"), S("build"), S("proj")>>}

\* the values before main has assigned them
NoProject == [framework |-> "None", platforms |-> <<>>]

NotLocated == [plist |-> NoPath, manifest |-> NoPath, gradle |-> NoPath]

NoDoc == [pkg |-> [kind |-> "absent"]]

Missing == [shape |-> "missing", names |-> {}]
NonObject == [shape |-> "nonobject", names |-> {}]
Object(names) == [shape |-> "object", names |-> names]

\* package.json: a file that cannot be read (OSError), bytes that are not
\* text (UnicodeDecodeError), text that is not JSON (JSONDecodeError), JSON
\* whose top level is not an object, or an object.  "dependencies" and
\* "devDependencies" are each missing, hold a non-object (null, a list, a
\* string) or hold an object with the given keys
PkgDocs ==
    { [kind |-> k] : k \in {"unreadable", "undecodable", "unparsable", "nonobject"} }
    \cup { [kind |-> "object", deps |-> d, devDeps |-> v] :
             d \in {Missing, NonObject, Object({"react-native"}),
                    Object({"expo", "expo-dev-client"})},
             v \in {Missing, NonObject, Object({"react-native"})} }

\* what check_common finds at the root: a bare directory; an ignored .env
\* beside a README with a privacy section; a .env the ignore file does not
\* cover; an ignore file that is not text; a README.md that cannot be read
CommonInputs ==
    { [env |-> <<>>, gitignore |-> "absent", readme |-> "absent"],
      [env |-> <<".env">>, gitignore |-> "lists_env", readme |-> "privacy"],
      [env |-> <<".env", ".env.local">>, gitignore |-> "lacks_env", readme |-> "plain"],
      [env |-> <<>>, gitignore |-> "undecodable", readme |-> "absent"],
      [env |-> <<>>, gitignore |-> "lists_env", readme |-> "unreadable"] }

PubspecDocs ==
    { [state |-> "unreadable", version |-> FALSE, sdk |-> FALSE],
      [state |-> "ok", version |-> TRUE, sdk |-> TRUE],
      [state |-> "ok", version |-> FALSE, sdk |-> FALSE] }

ReactNativeInputs ==
    { [version |-> TRUE, app_config |-> TRUE], [version |-> FALSE, app_config |-> FALSE] }

NoSources == [p \in {} |-> [readable |-> TRUE, matches |-> {}]]

AppDir == <<S("App")>>
IconSet == AppDir \o <<S("Assets.xcassets"), S("AppIcon.appiconset")>>
MainSwift == AppDir \o <<<<"Main", ".swift">>>>

GoodPlist ==
    [kind |-> "dict", bundle |-> "plain", version |-> TRUE, build |-> TRUE,
     perms |-> ("NSCameraUsageDescription" :> Str(Text(24))),
     ats |-> "absent"]

PoorPlist ==
    [kind |-> "dict", bundle |-> "absent", version |-> FALSE, build |-> FALSE,
     perms |-> ("NSCameraUsageDescription" :> Str(Text(3))
                @@ "NSMotionUsageDescription" :> NonStr(TRUE)),
     ats |-> "on"]

NoPlist == [kind |-> "unparsable"]

NoIcon == [kind |-> "unparsable", has_1024 |-> FALSE]

\* what check_ios finds below the root: nothing at all; a complete project;
\* a manifest that does not parse beside an icon catalog without descriptor;
\* a poor manifest at the Flutter location and a secret in a source file;
\* an icon descriptor whose top level is a list
IosInputs ==
    { [files |-> <<>>, plist |-> NoPlist, icon |-> NoIcon, sources |-> NoSources],
      [files |-> <<AppDir \o <<InfoPlistName>>, AppDir \o <<S("PrivacyInfo.xcprivacy")>>,
                   IconSet, IconSet \o <<S("Contents.json")>>, MainSwift>>,
       plist |-> GoodPlist, icon |-> [kind |-> "object", has_1024 |-> TRUE],
       sources |-> NoSources],
      [files |-> <<<<S("Pods"), S("Lib"), InfoPlistName>>, IconSet>>,
       plist |-> NoPlist, icon |-> NoIcon, sources |-> NoSources],
      [files |-> <<<<S("ios"), S("Runner"), InfoPlistName>>, MainSwift,
                   IconSet, IconSet \o <<S("Contents.json")>>>>,
       plist |-> PoorPlist, icon |-> [kind |-> "object", has_1024 |-> FALSE],
       sources |-> (MainSwift :> [readable |-> TRUE, matches |-> {1, 3}])],
      [files |-> <<AppDir \o <<InfoPlistName>>, IconSet, IconSet \o <<S("Contents.json")>>>>,
       plist |-> GoodPlist, icon |-> [kind |-> "nonobject", has_1024 |-> FALSE],
       sources |-> NoSources] }

AppMain == <<S("app"), S("src"), S("main")>>
MainKt == AppMain \o <<S("java"), <<"Main", ".kt">>>>

GoodGradle ==
    [kind |-> "text", versionName |-> TRUE, versionCode |-> TRUE,
     text |-> <<"targetSdk", "Version", " ", "3", "4">>,
     signing |-> TRUE, minify |-> TRUE]

PoorGradle ==
    [kind |-> "text", versionName |-> FALSE, versionCode |-> FALSE,
     text |-> <<"targetSdk", " ", "3", "3">>,
     signing |-> FALSE, minify |-> FALSE]

GoodManifest == [kind |-> "xml", package |-> TRUE, permissions |-> <<"INTERNET", "CAMERA">>]

\* what check_android finds below the root: nothing at all; a complete module
\* under app/; a manifest that does not parse and a secret in a source file;
\* a manifest deep in the tree without package attribute; a manifest that
\* cannot be opened; a build descriptor that is not text
AndroidInputs ==
    { [files |-> <<>>, manifest |-> GoodManifest, gradle |-> GoodGradle, sources |-> NoSources],
      [files |-> <<AppMain \o <<ManifestName>>,
                   AppMain \o <<S("res"), <<"mipmap-", "hdpi">>, S("ic_launcher.png")>>,
                   AppMain \o <<S("res"), <<"mipmap-", "anydpi", "-v26">>, S("ic_launcher.xml")>>>>,
       manifest |-> GoodManifest, gradle |-> GoodGradle, sources |-> NoSources],
      [files |-> <<AppMain \o <<ManifestName>>, MainKt>>,
       manifest |-> [kind |-> "unparsable", package |-> FALSE, permissions |-> <<>>],
       gradle |-> [GoodGradle EXCEPT !.kind = "unreadable"],
       sources |-> (MainKt :> [readable |-> TRUE, matches |-> {2}])],
      [files |-> <<<<S("mod"), S("feature")>> \o ManifestSuffix,
                   AppMain \o <<S("res"), S("values"), S("strings.xml")>>>>,
       manifest |-> [kind |-> "xml", package |-> FALSE, permissions |-> <<>>],
       gradle |-> PoorGradle, sources |-> NoSources],
      [files |-> <<AppMain \o <<ManifestName>>>>,
       manifest |-> [GoodManifest EXCEPT !.kind = "unreadable"],
       gradle |-> GoodGradle, sources |-> NoSources],
      [files |-> <<AppMain \o <<ManifestName>>>>,
       manifest |-> GoodManifest,
       gradle |-> [GoodGradle EXCEPT !.kind = "undecodable"], sources |-> NoSources] }

\* no contents: every file the rule sets would read is absent or unusable
NothingGiven ==
    [plist |-> NoPlist, icon |-> NoIcon,
     manifest |-> [kind |-> "unparsable", package |-> FALSE, permissions |-> <<>>],
     gradle |-> [GoodGradle EXCEPT !.kind = "unreadable"], sources |-> NoSources]

Init ==
    /\ argv \in {"missing", "notdir", "dir"}
    /\ IF argv = "dir" THEN root \in MainRoots ELSE root = PlainRoot
    /\ IF argv = "dir"
       THEN /\ tree \in MainTrees
            /\ IF Exists(tree, PackageJson)
               THEN doc \in [pkg : PkgDocs]
               ELSE doc = NoDoc
       ELSE tree = <<>> /\ doc = NoDoc
    /\ pc = "start"
    /\ project = NoProject
    /\ all_issues = <<>>
    /\ raised = "none"
    /\ stdout = <<>>
    /\ exit_status = -1
    /\ lpc = "off"
    /\ located = NotLocated
    /\ given = NothingGiven

-----------------------------------------------------------------------------
(* main() *)

RuleSets == {"check_common", "check_flutter", "check_react_native", "check_ios", "check_android"}

\* a tally that takes every finding that is not a pass for an error
CountSeverity_NotPass(issues, sev) ==
    IF sev = "error"
    THEN Len(SelectSeq(issues, LAMBDA f : f.severity # "pass"))
    ELSE Len(SelectSeq(issues, LAMBDA f : f.severity = sev))

CountSeverity(issues, sev) == Len(SelectSeq(issues, LAMBDA f : f.severity = sev))

\* the report dict handed to json.dumps
Report(r, proj, issues) ==
    [project_root |-> r,
     project_type |-> proj,
     summary |-> [errors |-> CountSeverity(issues, "error"),
                  warnings |-> CountSeverity(issues, "warning"),
                  passes |-> CountSeverity(issues, "pass")],
     issues |-> issues]

\* an exception nobody catches: the interpreter prints the traceback to the
\* error stream and exits with status 1; nothing reaches standard output
Uncaught(fn) ==
    /\ pc' = "crashed"
    /\ raised' = fn
    /\ exit_status' = 1
    /\ UNCHANGED <<project, all_issues, stdout>>

\* a merge that puts the newest rule set's findings first
Extend_Prepend(fn, result, next) ==
    IF result.raised THEN Uncaught(fn)
    ELSE /\ all_issues' = result.issues \o all_issues
         /\ pc' = next
         /\ UNCHANGED <<project, raised, stdout, exit_status>>

\* all_issues.extend(result), or the exception of the rule set escaping main
Extend(fn, result, next) ==
    IF result.raised THEN Uncaught(fn)
    ELSE /\ all_issues' = all_issues \o result.issues
         /\ pc' = next
         /\ UNCHANGED <<project, raised, stdout, exit_status>>

\* files a rule set reads must agree with what the classifier saw at the root
Consistent(files, extra) ==
    \A k \in 1..Len(extra) :
        /\ extra[k] \notin ToSet(files)
        /\ extra[k] \notin ToSet(MarkerOrder)
        /\ (extra[k][1] = S("ios") => DirExists(files, IosDir))
        /\ (extra[k][1] = S("android") => DirExists(files, AndroidDir))
        /\ extra[k][1] \notin {S("lib"), XcodeProj[1], XcWorkspace[1]}
        /\ extra[k] \notin ToSet(GradleCandidates)

CheckArguments ==
    /\ pc = "start"
    /\ IF argv \in {"missing", "notdir"}
       THEN /\ pc' = "exited"
            /\ exit_status' = 1
       ELSE /\ pc' = "detect"
            /\ UNCHANGED exit_status
    /\ UNCHANGED <<argv, root, tree, doc, project, all_issues, raised, stdout, lpc, located, given>>

DetectProjectType ==
    /\ pc = "detect"
    /\ LET result == detect_project_type(tree, doc.pkg)
       IN  IF result.raised THEN Uncaught("detect_project_type")
           ELSE /\ project' = [framework |-> result.framework, platforms |-> result.platforms]
                /\ pc' = "common"
                /\ UNCHANGED <<all_issues, raised, stdout, exit_status>>
    /\ UNCHANGED <<argv, root, tree, doc, lpc, located, given>>

RunCheckCommon ==
    /\ pc = "common"
    /\ \E c \in CommonInputs : Extend("check_common", check_common(c), "framework")
    /\ UNCHANGED <<argv, root, tree, doc, lpc, located, given>>

RunCheckFlutter ==
    /\ pc = "framework"
    /\ project.framework = "flutter"
    /\ \E pub \in PubspecDocs : Extend("check_flutter", check_flutter(tree, pub), "ios")
    /\ UNCHANGED <<argv, root, tree, doc, lpc, located, given>>

RunCheckReactNative ==
    /\ pc = "framework"
    /\ project.framework = "react-native"
    /\ \E rn \in ReactNativeInputs :
           Extend("check_react_native", check_react_native(tree, doc.pkg, rn), "ios")
    /\ UNCHANGED <<argv, root, tree, doc, lpc, located, given>>

SkipFramework ==
    /\ pc = "framework"
    /\ project.framework \notin {"flutter", "react-native"}
    /\ pc' = "ios"
    /\ UNCHANGED <<argv, root, tree, doc, project, all_issues, raised, stdout, exit_status,
                   lpc, located, given>>

RunCheckIos ==
    /\ pc = "ios"
    /\ "ios" \in ToSet(project.platforms)
    /\ \E i \in IosInputs :
        /\ Consistent(tree, i.files)
        /\ tree' = tree \o i.files
        /\ Extend("check_ios", check_ios(root, tree \o i.files, i), "android")
    /\ UNCHANGED <<argv, root, doc, lpc, located, given>>

SkipIos ==
    /\ pc = "ios"
    /\ "ios" \notin ToSet(project.platforms)
    /\ pc' = "android"
    /\ UNCHANGED <<argv, root, tree, doc, project, all_issues, raised, stdout, exit_status,
                   lpc, located, given>>

RunCheckAndroid ==
    /\ pc = "android"
    /\ "android" \in ToSet(project.platforms)
    /\ \E a \in AndroidInputs :
        /\ Consistent(tree, a.files)
        /\ tree' = tree \o a.files
        /\ Extend("check_android", check_android(root, tree \o a.files, a), "summary")
    /\ UNCHANGED <<argv, root, doc, lpc, located, given>>

SkipAndroid ==
    /\ pc = "android"
    /\ "android" \notin ToSet(project.platforms)
    /\ pc' = "summary"
    /\ UNCHANGED <<argv, root, tree, doc, project, all_issues, raised, stdout, exit_status,
                   lpc, located, given>>

\* the summary, print(json.dumps(report)) and the return from main
PrintReport ==
    /\ pc = "summary"
    /\ stdout' = Append(stdout, Report(root, project, all_issues))
    /\ exit_status' = 0
    /\ pc' = "done"
    /\ UNCHANGED <<argv, root, tree, doc, project, all_issues, raised, lpc, located, given>>

Next ==
    \/ CheckArguments
    \/ DetectProjectType
    \/ RunCheckCommon
    \/ RunCheckFlutter
    \/ RunCheckReactNative
    \/ SkipFramework
    \/ RunCheckIos
    \/ SkipIos
    \/ RunCheckAndroid
    \/ SkipAndroid
    \/ PrintReport

Spec == Init /\ [][Next]_vars

-----------------------------------------------------------------------------
(* Locator harness: the three locators applied to bounded trees *)

MaxFiles == 3

\* absolute project roots: the plain one, one stored under a directory named
\* "build", one whose own name has "Pods" as a substring
Roots ==
    { PlainRoot,
      <<S("home"), S("build"), S("proj")>>,
      <<S("home"), <<"Pods", "Demo">>>> }

LocPaths ==
    { <<S("ios"), S("Runner"), InfoPlistName>>,
      <<S("App"), S("Sub"), InfoPlistName>>,
      <<S("Pods"), S("Lib"), InfoPlistName>>,
      <<<<"re", "build">>, InfoPlistName>>,
      <<S("DerivedData"), S("x"), InfoPlistName>>,
      <<S("app")>> \o ManifestSuffix,
      <<S("mod"), S("feature")>> \o ManifestSuffix,
      <<S("build"), S("gen")>> \o ManifestSuffix,
      <<<<"re", "build">>>> \o ManifestSuffix,
      <<S("mod"), S("feature"), ManifestName>>,
      <<S("app"), GradleKtsName>>,
      <<S("android"), S("app"), GradleName>>,
      <<S("mod"), S("feature"), GradleName>> }

Dir(p) == SubSeq(p, 1, Len(p) - 1)

\* glob walks a directory before its subdirectories; siblings come in the
\* order the file system lists them, which is any order
PreOrder(files) ==
    \A i, j \in 1..Len(files) :
        (i < j) => ~(Dir(files[j]) # Dir(files[i]) /\ IsPrefix(Dir(files[j]), Dir(files[i])))

NoRepeat(files) == \A i, j \in 1..Len(files) : (i # j) => files[i] # files[j]

Listings(paths, n) ==
    UNION { { f \in [1..k -> paths] : NoRepeat(f) /\ PreOrder(f) } : k \in 0..n }

InitLocate ==
    /\ root \in Roots
    /\ tree \in Listings(LocPaths, MaxFiles)
    /\ lpc = "plist"
    /\ located = NotLocated
    /\ given = NothingGiven
    /\ argv = "dir"
    /\ doc = NoDoc
    /\ pc = "idle"
    /\ project = NoProject
    /\ all_issues = <<>>
    /\ raised = "none"
    /\ stdout = <<>>
    /\ exit_status = -1

LocateInfoPlist ==
    /\ lpc = "plist"
    /\ located' = [located EXCEPT !.plist = find_info_plist(root, tree)]
    /\ lpc' = "manifest"
    /\ UNCHANGED <<root, tree, given>> /\ UNCHANGED mainVars

LocateAndroidManifest ==
    /\ lpc = "manifest"
    /\ located' = [located EXCEPT !.manifest = find_android_manifest(root, tree)]
    /\ lpc' = "gradle"
    /\ UNCHANGED <<root, tree, given>> /\ UNCHANGED mainVars

LocateBuildGradle ==
    /\ lpc = "gradle"
    /\ located' = [located EXCEPT !.gradle = find_build_gradle(root, tree)]
    /\ lpc' = "done"
    /\ UNCHANGED <<root, tree, given>> /\ UNCHANGED mainVars

NextLocate == LocateInfoPlist \/ LocateAndroidManifest \/ LocateBuildGradle

SpecLocate == InitLocate /\ [][NextLocate]_vars

-----------------------------------------------------------------------------
(* Properties of the report *)

Severities == {"error", "warning", "pass"}

\* the findings of a list that carry a severity, counted by position
Tally(issues, sev) == Cardinality({k \in 1..Len(issues) : issues[k].severity = sev})

\* C1: in every report the three summary counts add up to the number of
\* issues, each count is the number of issues of its severity, and every
\* finding carries one of the severities error, warning, pass
C1_SummaryMatchesIssues ==
    /\ \A k \in 1..Len(all_issues) : all_issues[k].severity \in Severities
    /\ \A n \in 1..Len(stdout) :
        LET rep == stdout[n]
        IN  /\ rep.summary.errors + rep.summary.warnings + rep.summary.passes = Len(rep.issues)
            /\ rep.summary.errors = Tally(rep.issues, "error")
            /\ rep.summary.warnings = Tally(rep.issues, "warning")
            /\ rep.summary.passes = Tally(rep.issues, "pass")
            /\ \A k \in 1..Len(rep.issues) : rep.issues[k].severity \in Severities

\* a completed scan whose report holds findings of all three severities
C1_Witness ==
    /\ pc = "done"
    /\ Len(stdout) = 1
    /\ stdout[1].summary.errors > 0
    /\ stdout[1].summary.warnings > 0
    /\ stdout[1].summary.passes > 0

\* the place of a platform tag in the invocation order of main
TagRank(platform) ==
    CASE platform = "common" -> 0
      [] platform \in {"flutter", "react-native"} -> 1
      [] platform = "ios" -> 2
      [] platform = "android" -> 3
      [] OTHER -> 4

TagOrdered(issues) ==
    \A j, k \in 1..Len(issues) :
        (j < k) => TagRank(issues[j].platform) <= TagRank(issues[k].platform)

IsPrefixOf(a, b) == Len(a) <= Len(b) /\ SubSeq(b, 1, Len(a)) = a

FrameworkTag(issues) ==
    {issues[k].platform : k \in 1..Len(issues)} \cap {"flutter", "react-native"}

\* C2: the issues of a report are the common findings, then the findings of
\* the one framework rule set, then the ios findings, then the android
\* findings: every step of main only appends to what was collected before,
\* the collected list is ordered by rule set at every moment, carries the tag
\* of at most one framework, one that is the detected framework, and the
\* printed report holds exactly the collected list
C2_FixedOrder ==
    [][ /\ IsPrefixOf(all_issues, all_issues')
        /\ TagOrdered(all_issues')
        /\ FrameworkTag(all_issues') \subseteq {project'.framework}
        /\ (stdout' # stdout =>
               /\ Len(stdout') = 1
               /\ stdout'[1].issues = all_issues
               /\ stdout'[1].project_type = project) ]_vars

\* a report with findings of the common, a framework, the ios and the android
\* rule set
C2_Witness ==
    /\ pc = "done"
    /\ Len(stdout) = 1
    /\ {stdout[1].issues[k].platform : k \in 1..Len(stdout[1].issues)}
         \in { {"common", "flutter", "ios", "android"},
               {"common", "react-native", "ios", "android"} }

-----------------------------------------------------------------------------
(* Properties of the classifier and of the process outcome *)

Frameworks == {"flutter", "react-native", "native"}

\* main has got past the call of detect_project_type, or died in it
Classified == pc \notin {"start", "detect", "exited", "idle"}

\* C3: no rule set ever lets an exception escape: whatever the state of the
\* files it reads, it returns its findings and the scan goes on
C3_RuleSetsNeverRaise == raised \notin RuleSets

\* package.json is there but gives the classifier nothing to match on: it
\* cannot be read, decoded or parsed, its top level is no object, or its
\* dependency entries are missing or hold something that is no object
PackageUnusable(files, pkg) ==
    /\ Exists(files, PackageJson)
    /\ \/ pkg.kind \in {"unreadable", "undecodable", "unparsable", "nonobject"}
       \/ /\ pkg.kind = "object"
          /\ pkg.deps.shape \in {"missing", "nonobject"}
          /\ pkg.devDeps.shape \in {"missing", "nonobject"}

\* C4: detect_project_type never fails and returns one of the three
\* frameworks; with a package.json that is unreadable, unparsable, not an
\* object, or without usable dependency entries, a project that is not a
\* flutter project is classified as native
C4_ClassifierNeverFails ==
    Classified =>
        /\ raised # "detect_project_type"
        /\ project.framework \in Frameworks
        /\ (~FlutterMatches(tree) /\ PackageUnusable(tree, doc.pkg)
               => project.framework = "native")

\* package.json lists react-native or expo under dependencies or under
\* devDependencies
ListsReactNative(files, pkg) ==
    /\ Exists(files, PackageJson)
    /\ pkg.kind = "object"
    /\ \E d \in {pkg.deps, pkg.devDeps} :
          d.shape = "object" /\ d.names \cap {"react-native", "expo"} # {}

\* C5: first match wins in the order flutter, react-native, native: pubspec.yaml
\* with lib/ gives flutter whatever else the root holds; otherwise a
\* package.json that lists react-native or expo gives react-native; native is
\* the result only when neither rule matches
C5_Precedence ==
    Classified =>
        /\ (FlutterMatches(tree) => project.framework = "flutter")
        /\ (~FlutterMatches(tree) /\ ListsReactNative(tree, doc.pkg)
               => project.framework = "react-native")
        /\ (project.framework = "native"
               => ~FlutterMatches(tree) /\ ~ListsReactNative(tree, doc.pkg))

\* the root shows none of the markers of a framework or of a platform
NoMarkers(files, pkg) ==
    /\ ~FlutterMatches(files)
    /\ ~ListsReactNative(files, pkg)
    /\ ~HasXcodeBundle(files)
    /\ ~DirExists(files, IosDir)
    /\ \A c \in ToSet(GradleCandidates) : ~Exists(files, c)

Tags(issues) == {issues[k].platform : k \in 1..Len(issues)}

\* C6: a project without markers is classified as native with no platform and
\* reports common findings only; ios findings need ios among the detected
\* platforms, android findings need android, and every report has the
\* findings of the common rule set
C6_NoMarkersNative ==
    /\ (Classified /\ NoMarkers(tree, doc.pkg)
           => /\ project = [framework |-> "native", platforms |-> <<>>]
              /\ Tags(all_issues) \subseteq {"common"})
    /\ ("ios" \in Tags(all_issues) => "ios" \in ToSet(project.platforms))
    /\ ("android" \in Tags(all_issues) => "android" \in ToSet(project.platforms))
    /\ \A n \in 1..Len(stdout) : "common" \in Tags(stdout[n].issues)

\* C10: without a directory argument the process exits with status 1 before
\* any scan step and prints no report; with one, the scan runs to its end,
\* prints exactly one report and exits with status 0; nothing in the project
\* tree produces status 1
C10_ExitStatus ==
    /\ (argv # "dir" /\ pc # "start"
           => /\ pc = "exited"
              /\ exit_status = 1
              /\ stdout = <<>>
              /\ project = NoProject
              /\ all_issues = <<>>)
    /\ (exit_status = 1 => argv # "dir")
    /\ (argv = "dir" => pc \notin {"exited", "crashed"})
    /\ (argv = "dir" /\ pc = "done" => exit_status = 0 /\ Len(stdout) = 1)
    /\ (pc # "done" => stdout = <<>>)

-----------------------------------------------------------------------------
(* Properties of the locators *)

Copies(files, name) == {p \in ToSet(files) : Last(p) = name}

\* the copies of the Android manifest that lie in a src/main directory
MainManifests(files) ==
    {p \in Copies(files, ManifestName) :
        Len(p) >= 3 /\ p[Len(p) - 1] = S("main") /\ p[Len(p) - 2] = S("src")}

NoConventional(files, candidates) == \A k \in 1..Len(candidates) : candidates[k] \notin ToSet(files)

\* C7 as stated: with no conventional path, a single copy of the manifest is
\* returned wherever it lies, in an excluded directory or not, and a locator
\* returns null only when the tree holds no copy of its manifest at all
C7_LocatorFallback ==
    lpc = "done" =>
        /\ (located.plist = NoPath <=> Copies(tree, InfoPlistName) = {})
        /\ (located.manifest = NoPath <=> Copies(tree, ManifestName) = {})
        /\ \A p \in Copies(tree, InfoPlistName) :
              (Copies(tree, InfoPlistName) = {p} /\ NoConventional(tree, InfoPlistCandidates))
                 => located.plist = p
        /\ \A p \in Copies(tree, ManifestName) :
              (Copies(tree, ManifestName) = {p} /\ NoConventional(tree, ManifestCandidates))
                 => located.manifest = p

\* C7 amended: the same, where for the Android manifest only the copies at a
\* path that ends in src/main/AndroidManifest.xml count as copies
C7_LocatorFallbackInSrcMain ==
    lpc = "done" =>
        /\ (located.plist = NoPath <=> Copies(tree, InfoPlistName) = {})
        /\ (located.manifest = NoPath <=> MainManifests(tree) = {})
        /\ \A p \in Copies(tree, InfoPlistName) :
              (Copies(tree, InfoPlistName) = {p} /\ NoConventional(tree, InfoPlistCandidates))
                 => located.plist = p
        /\ \A p \in MainManifests(tree) :
              (MainManifests(tree) = {p} /\ NoConventional(tree, ManifestCandidates))
                 => located.manifest = p

\* the only Info.plist lies in Pods and is returned, the only Android manifest
\* under src/main lies in build and is returned
C7_Witness ==
    /\ lpc = "done"
    /\ Copies(tree, InfoPlistName) = {<<S("Pods"), S("Lib"), InfoPlistName>>}
    /\ located.plist = <<S("Pods"), S("Lib"), InfoPlistName>>
    /\ MainManifests(tree) = {<<S("build"), S("gen")>> \o ManifestSuffix}
    /\ located.manifest = <<S("build"), S("gen")>> \o ManifestSuffix

GradleCopies(files) == Copies(files, GradleName) \cup Copies(files, GradleKtsName)

\* check_android, run on the tree, reports that the build descriptor is missing
GradleNotFoundReported(r, files) ==
    \E k \in 1..Len(AndroidGradleCheck(r, files, GoodGradle).issues) :
        AndroidGradleCheck(r, files, GoodGradle).issues[k].message
            = <<"App-level build.gradle not found">>

\* C8 as stated: when a build.gradle or build.gradle.kts lies anywhere under
\* the root, find_build_gradle returns a candidate and check_android does not
\* report the build descriptor as missing
C8_GradleSearched ==
    lpc = "done" =>
        (GradleCopies(tree) # {}
            => located.gradle # NoPath /\ ~GradleNotFoundReported(root, tree))

\* C8 amended: find_build_gradle looks at the four conventional paths only
\* and returns the first that exists; when none exists it returns null and
\* check_android reports the build descriptor as missing, whatever
\* build.gradle files lie elsewhere under the root
C8_GradleConventionalOnly ==
    lpc = "done" =>
        /\ (located.gradle = NoPath <=> NoConventional(tree, GradleCandidates))
        /\ (located.gradle # NoPath =>
              \E k \in 1..Len(GradleCandidates) :
                  /\ GradleCandidates[k] = located.gradle
                  /\ located.gradle \in ToSet(tree)
                  /\ \A j \in 1..(k - 1) : GradleCandidates[j] \notin ToSet(tree))
        /\ (GradleNotFoundReported(root, tree) <=> located.gradle = NoPath)

\* a build.gradle lies deep in the tree, none at a conventional path
C8_Witness ==
    /\ lpc = "done"
    /\ <<S("mod"), S("feature"), GradleName>> \in ToSet(tree)
    /\ NoConventional(tree, GradleCandidates)
    /\ located.gradle = NoPath
    /\ GradleNotFoundReported(root, tree)

Denylist == {S("Pods"), S("build"), S("DerivedData")}

\* one of the directories on the way from the root to the file is denylisted
InDenylistedDir(p) == \E k \in 1..(Len(p) - 1) : p[k] \in Denylist

\* the locator policy with the filter on the segments below the root
SegmentLocate(files, candidates, found) ==
    LET conv == FirstExisting(files, candidates)
        kept == SelectSeq(found, LAMBDA p : ~InDenylistedDir(p))
    IN  IF conv # NoPath THEN conv
        ELSE IF Len(kept) > 0 THEN kept[1]
        ELSE FirstOr(found, NoPath)

\* C9: the filter of the locators looks at the directory segments of the path
\* below the root: a candidate is passed over exactly when one of them is
\* Pods, build or DerivedData, so the artifact chosen is the one a
\* segment-wise filter chooses, wherever the root is stored and whatever
\* names merely contain a denylisted word
C9_SegmentFilter ==
    lpc = "done" =>
        /\ located.plist
             = SegmentLocate(tree, InfoPlistCandidates, GlobName(tree, InfoPlistName))
        /\ located.manifest
             = SegmentLocate(tree, ManifestCandidates, GlobSuffix(tree, ManifestSuffix))

-----------------------------------------------------------------------------
(* Secret scan harness: check_ios and check_android applied to trees that  *)
(* hold up to MaxSources source files of each kind                         *)

MaxSources == 201

\* how many files of one kind a tree holds: none, one, as many as the scan
\* takes, and more than it takes
SourceCounts == {0, 1, ScanLimit, MaxSources}

\* the source files of a tree come in two families, A and B, listed in turn:
\* src/A1.swift, src/B1.swift, src/A2.swift, ...
Families == {"A", "B"}

SourceFile(k, ext) ==
    <<S("src"), <<IF k % 2 = 1 THEN "A" ELSE "B", ToString((k + 1) \div 2), ext>>>>

SourceFiles(n, ext) == [k \in 1..n |-> SourceFile(k, ext)]

\* sources that lie where the scans do not look
VendoredSources ==
    << <<S("Pods"), <<"A", "0", ".swift">>>>,
       <<S("build"), <<"B", "0", ".kt">>>>,
       <<<<".gradle">>, <<"A", "0", ".java">>>> >>

\* what read_text and the three re.search calls make of a file's content
SourceTexts ==
    { [readable |-> TRUE, matches |-> m] : m \in {{}, {1}, {3}, {2, 3}, {1, 2, 3}} }
    \cup { [readable |-> FALSE, matches |-> {}] }

IsSource(p) == Last(p)[Len(Last(p))] \in {".swift", ".kt", ".java"}

\* every file of a family has the content drawn for the family
FamilySources(files, texts) ==
    [p \in { q \in ToSet(files) : IsSource(q) } |-> texts[Last(p)[1]]]

InitScan ==
    /\ root \in MainRoots
    /\ \E nSwift \in SourceCounts, nKt \in SourceCounts, nJava \in SourceCounts \ {ScanLimit} :
         tree = VendoredSources \o <<AppDir \o <<InfoPlistName>>>>
                \o SourceFiles(nSwift, ".swift") \o SourceFiles(nKt, ".kt")
                \o SourceFiles(nJava, ".java")
    /\ \E texts \in [Families -> SourceTexts] :
         given = [NothingGiven EXCEPT !.plist = [GoodPlist EXCEPT !.ats = "on"],
                                      !.sources = FamilySources(tree, texts)]
    /\ lpc = "scan_ios"
    /\ located = NotLocated
    /\ argv = "dir"
    /\ doc = NoDoc
    /\ pc = "idle"
    /\ project = NoProject
    /\ all_issues = <<>>
    /\ raised = "none"
    /\ stdout = <<>>
    /\ exit_status = -1

\* a rule set called outside main: its findings are collected, its exception kept
Apply(fn, result, next) ==
    /\ IF result.raised
       THEN /\ raised' = fn
            /\ lpc' = "failed"
            /\ UNCHANGED all_issues
       ELSE /\ all_issues' = all_issues \o result.issues
            /\ lpc' = next
            /\ UNCHANGED raised
    /\ UNCHANGED <<argv, root, tree, doc, pc, project, stdout, exit_status, located, given>>

ScanIos ==
    /\ lpc = "scan_ios"
    /\ Apply("check_ios", check_ios(root, tree, given), "scan_android")

ScanAndroid ==
    /\ lpc = "scan_android"
    /\ Apply("check_android", check_android(root, tree, given), "scanned")

NextScan == ScanIos \/ ScanAndroid

SpecScan == InitScan /\ [][NextScan]_vars

-----------------------------------------------------------------------------
(* Properties of the secret scan *)

\* the word is one of the tokens of the absolute path
Mentions(word, p) ==
    \E k \in 1..Len(root \o p) : \E t \in 1..Len((root \o p)[k]) : (root \o p)[k][t] = word

HasExt(p, ext) == Last(p)[Len(Last(p))] = ext

\* the files a platform's scan may read, in the order it meets them
ScanCandidates(platform) ==
    IF platform = "ios"
    THEN SelectSeq(tree, LAMBDA p : HasExt(p, ".swift")
                                    /\ ~Mentions("Pods", p) /\ ~Mentions("build", p))
    ELSE SelectSeq(tree, LAMBDA p : HasExt(p, ".kt")
                                    /\ ~Mentions("build", p) /\ ~Mentions(".gradle", p))
         \o SelectSeq(tree, LAMBDA p : HasExt(p, ".java")
                                       /\ ~Mentions("build", p) /\ ~Mentions(".gradle", p))

\* the files the scan reads: the first ScanLimit candidates
ScannedFiles(platform) ==
    LET c == ScanCandidates(platform)
    IN  { c[k] : k \in 1..(IF Len(c) < ScanLimit THEN Len(c) ELSE ScanLimit) }

\* the secret warnings a platform's rule set emitted
SecretWarnings(platform) ==
    SelectSeq(all_issues, LAMBDA f : /\ f.platform = platform
                                     /\ f.category = "security"
                                     /\ f.severity = "warning"
                                     /\ Len(f.message) >= 2
                                     /\ f.message[2] = "found in")

WarnedFile(f) == SubSeq(f.message, 3, Len(f.message))

LowestOf(m) == CHOOSE k \in m : \A j \in m : k <= j

\* the scanned files a pattern matches, each with the description of the
\* first pattern of the catalog that matches it
ExpectedWarnings(platform) ==
    { <<Render(p), SecretDescs[LowestOf(given.sources[p].matches)]>> :
        p \in { q \in ScannedFiles(platform) :
                  given.sources[q].readable /\ given.sources[q].matches # {} } }

\* the emitted secret warnings are, one for one, the expected ones
ScanHolds(platform) ==
    LET w == SecretWarnings(platform)
    IN  /\ Len(w) <= ScanLimit
        /\ Len(w) = Cardinality(ExpectedWarnings(platform))
        /\ { <<WarnedFile(w[k]), w[k].message[1]>> : k \in 1..Len(w) }
             = ExpectedWarnings(platform)

\* C11: once a platform rule set has run, each source file its scan read has
\* at most one secret warning, exactly one when a pattern matches it, and
\* that one names the first matching pattern of the catalog; no other file
\* has a secret warning, and a rule set emits at most ScanLimit of them
C11_OneWarningPerFile ==
    /\ (lpc \in {"scan_android", "scanned"} => ScanHolds("ios"))
    /\ (lpc = "scanned" => ScanHolds("android"))

\* both scans ran on trees holding more files than they take, the first file
\* of each matching several patterns and the file past the limit matching too
C11_Witness ==
    /\ lpc = "scanned"
    /\ \A platform \in {"ios", "android"} :
         LET c == ScanCandidates(platform)
         IN  /\ Len(c) > ScanLimit
             /\ given.sources[c[1]].readable
             /\ Cardinality(given.sources[c[1]].matches) >= 2
             /\ given.sources[c[ScanLimit + 1]].matches # {}
             /\ Len(SecretWarnings(platform)) = ScanLimit

-----------------------------------------------------------------------------
(* Info.plist harness: check_ios applied to manifests whose usage          *)
(* descriptions have lengths around MinDescriptionLen                      *)

MaxDescription == 11

\* the lengths of the text of a description between its padding
DescriptionLengths == {0, 1, MinDescriptionLen - 1, MinDescriptionLen, MaxDescription}

Pads == {<<>>, <<" ">>}

\* n characters with a blank inside, none at either end
Body(n) == [k \in 1..n |-> IF k = 2 /\ n > 2 THEN " " ELSE "x"]

Descriptions == { l \o Body(n) \o r : l \in Pads, r \in Pads, n \in DescriptionLengths }

\* what an entry of the manifest may hold: a description, the empty string
\* among them, or a value that is not a string, truthy (1) or falsy (0)
PermValues == { Str(t) : t \in Descriptions } \cup {NonStr(TRUE), NonStr(FALSE)}

\* the first, a middle and the last key of the catalog
CheckedKeys ==
    {"NSCameraUsageDescription", "NSMotionUsageDescription", "NSUserTrackingUsageDescription"}

InitPlist ==
    /\ root = PlainRoot
    /\ tree = <<AppDir \o <<InfoPlistName>>>>
    /\ \E present \in SUBSET CheckedKeys : \E perms \in [present -> PermValues] :
         given = [NothingGiven EXCEPT !.plist = [GoodPlist EXCEPT !.perms = perms]]
    /\ lpc = "plist_check"
    /\ located = NotLocated
    /\ argv = "dir"
    /\ doc = NoDoc
    /\ pc = "idle"
    /\ project = NoProject
    /\ all_issues = <<>>
    /\ raised = "none"
    /\ stdout = <<>>
    /\ exit_status = -1

CheckPlist ==
    /\ lpc = "plist_check"
    /\ Apply("check_ios", check_ios(root, tree, given), "plist_checked")

NextPlist == CheckPlist

SpecPlist == InitPlist /\ [][NextPlist]_vars

-----------------------------------------------------------------------------
(* Properties of the permission-description check *)

\* the length of a text from its first to its last character that is not blank
TrimmedLength(t) ==
    LET solid == { k \in 1..Len(t) : t[k] # " " }
    IN  IF solid = {} THEN 0
        ELSE (CHOOSE k \in solid : \A j \in solid : j <= k)
             - (CHOOSE k \in solid : \A j \in solid : k <= j) + 1

\* the catalogued keys the manifest holds with a string value
PresentKeys ==
    { k \in 1..Len(PermissionKeys) :
        /\ PermissionKeys[k].key \in DOMAIN given.plist.perms
        /\ given.plist.perms[PermissionKeys[k].key].kind = "string" }

DescriptionOf(k) == given.plist.perms[PermissionKeys[k].key].text

\* the short-description warnings emitted for a permission
ShortWarnings(name) ==
    { k \in 1..Len(all_issues) :
        /\ all_issues[k].platform = "ios"
        /\ all_issues[k].category = "privacy"
        /\ all_issues[k].severity = "warning"
        /\ all_issues[k].message = <<"permission description is very short", name>> }

\* the 'Permission descriptions found' findings emitted
PassSummaries ==
    SelectSeq(all_issues, LAMBDA f : /\ f.platform = "ios"
                                     /\ f.category = "privacy"
                                     /\ f.severity = "pass"
                                     /\ f.message[1] = "Permission descriptions found for")

ListedInSummary(name) ==
    \E k \in 1..Len(PassSummaries) : name \in ToSet(Tail(PassSummaries[k].message))

\* C12: for each catalogued key present in the manifest, a description of at
\* most 9 characters after trimming gets one privacy warning and is not
\* listed in the pass summary, one of 10 or more gets no warning and is
\* listed; the pass summary is emitted exactly when some present key has a
\* description of 10 or more characters after trimming
C12_PermissionDescriptions ==
    lpc = "plist_checked" =>
        /\ \A k \in PresentKeys :
             IF TrimmedLength(DescriptionOf(k)) < MinDescriptionLen
             THEN /\ Cardinality(ShortWarnings(PermissionKeys[k].name)) = 1
                  /\ ~ListedInSummary(PermissionKeys[k].name)
             ELSE /\ ShortWarnings(PermissionKeys[k].name) = {}
                  /\ ListedInSummary(PermissionKeys[k].name)
        /\ (Len(PassSummaries) > 0
              <=> \E k \in PresentKeys : TrimmedLength(DescriptionOf(k)) >= MinDescriptionLen)

-----------------------------------------------------------------------------
(* Build descriptor harness: check_android applied to app-level            *)
(* descriptors whose text is any sequence of up to MaxText pieces          *)

MaxText == 5

\* the pieces a descriptor is written with
GradlePieces == {"targetSdk", "Version", " ", "=", "3", "4"}

GradleTexts == UNION { [1..n -> GradlePieces] : n \in 0..MaxText }

\* where the descriptor lies: Groovy under app/, Kotlin script under android/app/
GradleTrees ==
    { <<<<S("app"), GradleName>>>>,
      <<<<S("android"), S("app"), GradleKtsName>>>> }

InitGradle ==
    /\ root = PlainRoot
    /\ tree \in GradleTrees
    /\ \E text \in GradleTexts :
         given = [NothingGiven EXCEPT !.gradle = [PoorGradle EXCEPT !.text = text]]
    /\ lpc = "gradle_check"
    /\ located = NotLocated
    /\ argv = "dir"
    /\ doc = NoDoc
    /\ pc = "idle"
    /\ project = NoProject
    /\ all_issues = <<>>
    /\ raised = "none"
    /\ stdout = <<>>
    /\ exit_status = -1

CheckGradle ==
    /\ lpc = "gradle_check"
    /\ Apply("check_android", check_android(root, tree, given), "gradle_checked")

NextGradle == CheckGradle

SpecGradle == InitGradle /\ [][NextGradle]_vars

-----------------------------------------------------------------------------
(* Properties of the target-SDK check *)

DecimalDigits == {"0", "1", "2", "3", "4", "5", "6", "7", "8", "9"}

\* the positions of the descriptor where targetSdk or targetSdkVersion is
\* followed, after blank space, by a digit: each with the position of the digit
Declarations ==
    LET text == given.gradle.text
    IN  { d \in (1..Len(text)) \X (1..Len(text)) :
            /\ text[d[1]] = "targetSdk"
            /\ LET from == IF d[1] < Len(text) /\ text[d[1] + 1] = "Version"
                           THEN d[1] + 2 ELSE d[1] + 1
               IN  /\ from < d[2]
                   /\ \A j \in from..(d[2] - 1) : text[j] \in {" ", "\n", "\t"}
            /\ text[d[2]] \in DecimalDigits }

DigitValue(c) ==
    CASE c = "0" -> 0 [] c = "1" -> 1 [] c = "2" -> 2 [] c = "3" -> 3 [] c = "4" -> 4
      [] c = "5" -> 5 [] c = "6" -> 6 [] c = "7" -> 7 [] c = "8" -> 8 [] c = "9" -> 9

\* the integer whose digits start at position b of the descriptor
IntegerAt(b) ==
    LET text == given.gradle.text
        ends == { e \in b..Len(text) :
                    /\ \A j \in b..e : text[j] \in DecimalDigits
                    /\ (e = Len(text) \/ text[e + 1] \notin DecimalDigits) }
        last == CHOOSE e \in ends : TRUE
        weigh[j \in b..last] ==
            DigitValue(text[j]) * 10 ^ (last - j) + (IF j = last THEN 0 ELSE weigh[j + 1])
    IN  weigh[b]

\* the value the descriptor declares: that of its first declaration
DeclaredSdk ==
    LET first == CHOOSE d \in Declarations : \A o \in Declarations : d[1] <= o[1]
    IN  IntegerAt(first[2])

\* the findings of the target-SDK sub-check
TargetSdkFindings ==
    SelectSeq(all_issues, LAMBDA f : /\ f.platform = "android"
                                     /\ f.message[1] \in {"targetSdkVersion",
                                                          "targetSdkVersion is below the required"})

\* C13: once check_android has run on a descriptor that was found and read,
\* a declared target SDK gives exactly one finding of the sub-check, of
\* category config, a warning when the value is below 34 and a pass when it
\* is 34 or above, carrying the value; no declaration gives no finding
C13_TargetSdk ==
    lpc = "gradle_checked" =>
        IF Declarations = {}
        THEN TargetSdkFindings = <<>>
        ELSE /\ Len(TargetSdkFindings) = 1
             /\ TargetSdkFindings[1].category = "config"
             /\ TargetSdkFindings[1].severity = (IF DeclaredSdk < 34 THEN "warning" ELSE "pass")
             /\ TargetSdkFindings[1].message[2] = ToString(DeclaredSdk)

\* the descriptor declares 33 under the long keyword and the warning came out
C13_Witness ==
    /\ lpc = "gradle_checked"
    /\ given.gradle.text = <<"targetSdk", "Version", " ", "3", "3">>
    /\ Len(TargetSdkFindings) = 1
    /\ TargetSdkFindings[1].severity = "warning"

====
